---------------------------- MODULE Spec2Model ----------------------------
(***************************************************************************)
(* Model of ps2000.py, a driver for the EA-PS2000 bench power supply.      *)
(*                                                                         *)
(* Two specifications:                                                     *)
(*   Spec       the life cycle of one `with ps2000(port) as ps:` block:    *)
(*              __init__, __enter__, the body's accessor calls, __exit__;  *)
(*              every transfer is a write step followed by a read step,    *)
(*              the device's answer being any member of Responses.         *)
(*   SpecCodec  the telegram codec alone (_construct, _check_checksum)     *)
(*              over bounded inputs, with a tampering step.                *)
(*                                                                         *)
(* Python sequences are 0-based; At(s, i) reads s[i].  Floats are modelled *)
(* as exact rationals <<n, d>> (d > 0, lowest terms): struct.unpack('>f')  *)
(* is decoded bit by bit, and the inputs are chosen so that binary64       *)
(* arithmetic on them is exact or rounds as the exact quotient does.       *)
(* u_nom and i_nom carry a third component, "int" for the class default 0  *)
(* and "float" for a value assigned from _get_float.                       *)
(*                                                                         *)
(* sys.exit(1) is the exception SystemExit: raised in __init__ or          *)
(* __enter__ it ends the process without __exit__; raised in the body it   *)
(* runs __exit__, which returns None, so it propagates afterwards.         *)
(* Not modelled: exceptions of the transport itself (serial.Serial, write, *)
(* read, close) and the verbose trace (verbose is False).                  *)
(***************************************************************************)
EXTENDS Integers, Sequences, FiniteSets, TLC

VARIABLES
    phase,      \* where the process is: init_u, init_i, enter, body, exit, done
    pc,         \* "ready" (between calls) or "wait" (telegram written, read pending)
    call,       \* the accessor call in progress or last made
    wire,       \* the last telegram written to ser_dev
    ans,        \* the last answer read from ser_dev
    io,         \* the transport operations so far, in order ("write" / "read")
    mark,       \* Len(io) when the current _transfer was entered
    outcome,    \* how the last _transfer ended, and which checks it ran
    stdout,     \* the lines the last _transfer printed
    ret,        \* what the last accessor call returned (or NoValue)
    exc,        \* the exception in flight / that ended the process ("none" if none)
    u_nom,      \* self.u_nom
    i_nom,      \* self.i_nom
    open,       \* ser_dev is open
    ncalls,     \* accessor calls made by the body so far
    c_in,       \* codec: the arguments of _construct
    c_frame,    \* codec: the frame under test
    c_pos,      \* codec: index of the tampered byte, -1 if untouched
    c_ok,       \* codec: how the check of c_frame ended ("none" before)
    c_val,      \* codec: what the bitfield accessors decode from c_frame
    c_pc        \* codec: position: "new", "built" / "raised", "checked";
                \* "answer", "classified"; "payload", "decoded"

vars == <<phase, pc, call, wire, ans, io, mark, outcome, stdout, ret, exc,
          u_nom, i_nom, open, ncalls, c_in, c_frame, c_pos, c_ok, c_val,
          c_pc>>

sessionVars == <<phase, pc, call, wire, ans, io, mark, outcome, stdout, ret, exc,
                 u_nom, i_nom, open, ncalls>>

codecVars == <<c_in, c_frame, c_pos, c_ok, c_val, c_pc>>

---------------------------------------------------------------------------
\* Bounds of the model.

\* body accessor calls per session
MaxCalls == 2

\* longest data sequence handed to _construct in SpecCodec
MaxData == 2

\* longest run of equal bytes handed to _construct in SpecCodec
MaxLong == 17

---------------------------------------------------------------------------
\* Program constants.

PS_QUERY == 64

PS_SEND == 192

\* the start delimiter's fixed bits (0x30)
SD_BASE == 48

\* the error / acknowledge marker in byte 2 of an answer (0xff)
ERR_MARK == 255

\* shortest answer _transfer accepts
MIN_ANSWER == 5

\* full scale of the 16-bit fixed-point values
FULL_SCALE == 25600

---------------------------------------------------------------------------
\* Arithmetic helpers.

Byte == 0..255

\* s[i] with Python's 0-based index
At(s, i) == s[i + 1]

\* s[a:b] for 0 <= a, with b counted from the end when negative (Python slice)
Slice(s, a, b) ==
    LET e == IF b < 0 THEN Len(s) + b ELSE (IF b > Len(s) THEN Len(s) ELSE b)
    IN  IF e <= a THEN <<>> ELSE SubSeq(s, a + 1, e)

RECURSIVE SumSeq(_)
SumSeq(s) == IF s = <<>> THEN 0 ELSE s[1] + SumSeq(Tail(s))

RECURSIVE BitAnd(_, _)
BitAnd(a, b) ==
    IF a = 0 \/ b = 0 THEN 0
    ELSE (a % 2) * (b % 2) + 2 * BitAnd(a \div 2, b \div 2)

RECURSIVE BitOr(_, _)
BitOr(a, b) ==
    IF a = 0 THEN b
    ELSE IF b = 0 THEN a
    ELSE (IF a % 2 = 1 \/ b % 2 = 1 THEN 1 ELSE 0) + 2 * BitOr(a \div 2, b \div 2)

RECURSIVE Pow2(_)
Pow2(n) == IF n = 0 THEN 1 ELSE 2 * Pow2(n - 1)

RECURSIVE Gcd(_, _)
Gcd(a, b) == IF b = 0 THEN a ELSE Gcd(b, a % b)

Abs(x) == IF x < 0 THEN -x ELSE x

\* the rational n/d (d # 0) in lowest terms with a positive denominator
Rat(n, d) ==
    LET g == Gcd(Abs(n), Abs(d))
        s == IF d < 0 THEN -1 ELSE 1
    IN  <<(s * n) \div g, (s * d) \div g>>

\* Python 3 round(): to the nearest integer, ties to the even one
Round(q) ==
    LET f == q[1] \div q[2]
        r == q[1] - f * q[2]
    IN  IF 2 * r < q[2] THEN f
        ELSE IF 2 * r > q[2] THEN f + 1
        ELSE IF f % 2 = 0 THEN f ELSE f + 1

---------------------------------------------------------------------------
\* Telegram codec.

\* _construct with the start-delimiter length update left out of the sum
constructNoLen(type, node, obj, data) ==
    LET telegram == IF Len(data) > 0
                    THEN <<SD_BASE + type + Len(data) - 1, node, obj>> \o data
                    ELSE <<SD_BASE + type, node, obj>>
        cs == SumSeq(<<SD_BASE + type, node, obj>> \o data)
    IN  telegram \o <<cs \div 256, cs % 256>>

\* _construct without the "- 1" of the length update
constructLenOff(type, node, obj, data) ==
    LET telegram == IF Len(data) > 0
                    THEN <<SD_BASE + type + Len(data), node, obj>> \o data
                    ELSE <<SD_BASE + type, node, obj>>
        cs == SumSeq(telegram)
    IN  telegram \o <<cs \div 256, cs % 256>>

\* _construct: the telegram for (type, node, obj, data)
construct(type, node, obj, data) ==
    LET telegram == IF Len(data) > 0
                    THEN <<SD_BASE + type + Len(data) - 1, node, obj>> \o data
                    ELSE <<SD_BASE + type, node, obj>>
        cs == SumSeq(telegram)
    IN  telegram \o <<cs \div 256, cs % 256>>

\* bytearray.append / extend raise ValueError for an element outside 0..255
constructRaises(type, node, obj, data) ==
    \E k \in 1..Len(construct(type, node, obj, data)) :
        construct(type, node, obj, data)[k] \notin Byte

\* _check_checksum comparing the high checksum byte only
check_checksumHighOnly(a) ==
    LET cs == SumSeq(Slice(a, 0, -2))
    IN  At(a, Len(a) - 2) = cs \div 256

\* _check_checksum: TRUE iff the trailing two bytes are the sum of the others
\* (on FALSE the source prints 'ERROR: checksum mismatch' and exits)
check_checksum(a) ==
    LET cs == SumSeq(Slice(a, 0, -2))
    IN  ~ (At(a, Len(a) - 2) # cs \div 256 \/ At(a, Len(a) - 1) # cs % 256)

\* _check_error treating only the named codes as errors
check_errorNamedOnly(a) ==
    /\ At(a, 2) = ERR_MARK
    /\ At(a, 3) \in {3, 4, 5, 7, 8, 9, 15, 48, 49}

\* _check_error: TRUE iff the answer is a device error (the source then exits)
check_error(a) ==
    IF At(a, 2) # ERR_MARK THEN FALSE
    ELSE IF At(a, 3) = 0 THEN FALSE
    ELSE TRUE

\* the line _check_error prints for an error code ("" when the code has no name)
error_text(code) ==
    CASE code = 3  -> "ERROR: checksum incorrect"
      [] code = 4  -> "ERROR: start delimiter incorrect"
      [] code = 5  -> "ERROR: wrong address for output"
      [] code = 7  -> "ERROR: object not defined"
      [] code = 8  -> "ERROR: object length incorrect"
      [] code = 9  -> "ERROR: access denied"
      [] code = 15 -> "ERROR: device is locked"
      [] code = 48 -> "ERROR: upper limit exceeded"
      [] code = 49 -> "ERROR: lower limt exceeded"
      [] OTHER     -> ""


---------------------------------------------------------------------------
\* Typed decode helpers.  A result is [exc, kind, val]: exc # "none" means the
\* helper raised; otherwise kind/val is the value returned.

NoValue == [kind |-> "none", val |-> 0]

Returns(k, v) == [exc |-> "none", kind |-> k, val |-> v]

Raises(e) == [exc |-> e, kind |-> "none", val |-> 0]

\* the payload slice ans[3:-2] that _get_binary / _set_binary return
get_binary(a) == Slice(a, 3, -2)

\* _get_string: ans[3:-3].decode('ascii')
get_string(a) ==
    LET s == Slice(a, 3, -3)
    IN  IF \E k \in 1..Len(s) : s[k] > 127
        THEN Raises("UnicodeDecodeError")
        ELSE Returns("str", s)

\* struct.unpack('>f', p)[0] for a 4-byte p holding zero or a normal number,
\* as an exact rational
unpack_f(p) ==
    LET sign == p[1] \div 128
        e    == (p[1] % 128) * 2 + p[2] \div 128
        m    == (p[2] % 128) * 65536 + p[3] * 256 + p[4]
        sg   == IF sign = 1 THEN -1 ELSE 1
        M    == 8388608 + m
    IN  IF e = 0 /\ m = 0 THEN <<0, 1>>
        ELSE IF e >= 150 THEN Rat(sg * M * Pow2(e - 150), 1)
        ELSE Rat(sg * M, Pow2(150 - e))

\* _get_float: struct.unpack('>f', ans[3:-2])[0]
get_float(a) ==
    IF Len(Slice(a, 3, -2)) # 4
    THEN Raises("struct.error")
    ELSE Returns("float", unpack_f(Slice(a, 3, -2)))

\* _get_integer / the return of _set_integer: (ans[3] << 8) + ans[4]
get_integer(a) == Returns("int", At(a, 3) * 256 + At(a, 4))

\* nominal * raw / 25600 for a raw integer result r (an exception passes through)
scaled(nom, r) ==
    IF r.exc # "none" THEN r
    ELSE Returns("float", Rat(nom[1] * r.val, nom[2] * FULL_SCALE))

\* get_control with the two payload bytes exchanged
get_controlSwapped(a) ==
    LET p == get_binary(a)
    IN  IF Len(p) < 2 THEN Raises("IndexError")
        ELSE Returns("control",
                     [output_on |-> BitAnd(At(p, 0), 1) # 0,
                      remote    |-> BitAnd(At(p, 1), 1) # 0])

\* get_control: the two flags of object 54
get_control(a) ==
    LET p == get_binary(a)
    IN  IF Len(p) < 2 THEN Raises("IndexError")
        ELSE Returns("control",
                     [output_on |-> BitAnd(At(p, 1), 1) # 0,
                      remote    |-> BitAnd(At(p, 0), 1) # 0])

\* _set_control: ans[0] == 0xff and ans[1] == 0x00 on the payload slice
set_control(a) ==
    LET p == get_binary(a)
    IN  IF Len(p) < 1 THEN Raises("IndexError")
        ELSE IF At(p, 0) # ERR_MARK THEN Returns("bool", FALSE)
        ELSE IF Len(p) < 2 THEN Raises("IndexError")
        ELSE Returns("bool", At(p, 1) = 0)

\* get_actual: object 71
get_actual(a, un, in) ==
    LET p == get_binary(a)
    IN  IF Len(p) < 6 THEN Raises("IndexError")
        ELSE Returns("actual",
               [remote |-> BitAnd(At(p, 0), 3) # 0,
                local  |-> ~ (BitAnd(At(p, 0), 3) # 0),
                on     |-> BitAnd(At(p, 1), 1) # 0,
                CC     |-> BitAnd(At(p, 1), 6) # 0,
                CV     |-> ~ (BitAnd(At(p, 1), 6) # 0),
                OVP    |-> BitAnd(At(p, 1), 16) # 0,
                OCP    |-> BitAnd(At(p, 1), 32) # 0,
                OPP    |-> BitAnd(At(p, 1), 64) # 0,
                OTP    |-> BitAnd(At(p, 1), 128) # 0,
                v      |-> Rat(un[1] * (At(p, 2) * 256 + At(p, 3)), un[2] * FULL_SCALE),
                i      |-> Rat(in[1] * (At(p, 4) * 256 + At(p, 5)), in[2] * FULL_SCALE)])

\* get_setpoints testing bit 0 alone for remote, as get_control does
get_setpointsRemoteBit0(a, un, in) ==
    LET p == get_binary(a)
    IN  IF Len(p) < 6 THEN Raises("IndexError")
        ELSE Returns("setpoints",
               [remote |-> BitAnd(At(p, 0), 1) # 0,
                on     |-> BitAnd(At(p, 1), 1) # 0,
                CC     |-> BitAnd(At(p, 1), 6) # 0,
                OVP    |-> BitAnd(At(p, 1), 16) # 0,
                OCP    |-> BitAnd(At(p, 1), 32) # 0,
                OPP    |-> BitAnd(At(p, 1), 64) # 0,
                OTP    |-> BitAnd(At(p, 1), 128) # 0,
                v      |-> Rat(un[1] * (At(p, 2) * 256 + At(p, 3)), un[2] * FULL_SCALE),
                i      |-> Rat(in[1] * (At(p, 4) * 256 + At(p, 5)), in[2] * FULL_SCALE)])

\* get_setpoints: object 72
get_setpoints(a, un, in) ==
    LET p == get_binary(a)
    IN  IF Len(p) < 6 THEN Raises("IndexError")
        ELSE Returns("setpoints",
               [remote |-> BitAnd(At(p, 0), 3) # 0,
                on     |-> BitAnd(At(p, 1), 1) # 0,
                CC     |-> BitAnd(At(p, 1), 6) # 0,
                OVP    |-> BitAnd(At(p, 1), 16) # 0,
                OCP    |-> BitAnd(At(p, 1), 32) # 0,
                OPP    |-> BitAnd(At(p, 1), 64) # 0,
                OTP    |-> BitAnd(At(p, 1), 128) # 0,
                v      |-> Rat(un[1] * (At(p, 2) * 256 + At(p, 3)), un[2] * FULL_SCALE),
                i      |-> Rat(in[1] * (At(p, 4) * 256 + At(p, 5)), in[2] * FULL_SCALE)])


---------------------------------------------------------------------------
\* Accessor calls.  A call is [name, flag, x, isfloat]: flag is the boolean
\* argument of the control setters, x the numeric argument of the scaled
\* setters as a rational and isfloat whether it is a Python float.

Call(nm, fl, xx, fp) == [name |-> nm, flag |-> fl, x |-> xx, isfloat |-> fp]

Plain(nm) == Call(nm, FALSE, <<0, 1>>, FALSE)

StringGetters == {"get_type", "get_serial", "get_article", "get_manufacturer",
                  "get_version"}

FloatGetters == {"get_nominal_voltage", "get_nominal_current", "get_nominal_power"}

ScaledGetters == {"get_OVP_threshold", "get_OCP_threshold", "get_voltage_setpoint",
                  "get_current_setpoint"}

ScaledSetters == {"set_OVP_threshold", "set_OCP_threshold", "set_voltage",
                  "set_current"}

RawSetters == {"set_OVP_threshold", "set_OCP_threshold"}

ControlGetters == {"get_control", "get_remote", "get_output_on"}

ControlSetters == {"set_remote", "set_local", "set_output_on", "set_output_off"}

Getters == StringGetters \cup FloatGetters \cup {"get_device_class"}
           \cup ScaledGetters \cup ControlGetters \cup {"get_actual", "get_setpoints"}

\* the object number each accessor addresses
obj_of(nm) ==
    CASE nm = "get_type" -> 0
      [] nm = "get_serial" -> 1
      [] nm = "get_nominal_voltage" -> 2
      [] nm = "get_nominal_current" -> 3
      [] nm = "get_nominal_power" -> 4
      [] nm = "get_article" -> 6
      [] nm = "get_manufacturer" -> 8
      [] nm = "get_version" -> 9
      [] nm = "get_device_class" -> 19
      [] nm \in {"get_OVP_threshold", "set_OVP_threshold"} -> 38
      [] nm \in {"get_OCP_threshold", "set_OCP_threshold"} -> 39
      [] nm \in {"get_voltage_setpoint", "set_voltage"} -> 50
      [] nm \in {"get_current_setpoint", "set_current"} -> 51
      [] nm \in ControlGetters \cup ControlSetters -> 54
      [] nm = "get_actual" -> 71
      [] nm = "get_setpoints" -> 72

\* the nominal value an accessor scales by
nominal_of(nm, un, in) ==
    IF obj_of(nm) \in {38, 50} THEN un ELSE in

\* the numeric arguments the body passes to the scaled setters
SetArgs == { [x |-> <<10, 1>>,    isfloat |-> FALSE],
             [x |-> <<12800, 1>>, isfloat |-> FALSE],
             [x |-> <<70000, 1>>, isfloat |-> FALSE],
             [x |-> <<21, 2>>,    isfloat |-> TRUE],
             [x |-> <<617, 50>>,  isfloat |-> TRUE] }

\* the calls the with-block body may make
BodyCalls ==
    { Plain(nm) : nm \in Getters }
    \cup { Call(nm, fl, <<0, 1>>, FALSE) : nm \in ControlSetters, fl \in BOOLEAN }
    \cup { Call(nm, FALSE, a.x, a.isfloat) : nm \in ScaledSetters, a \in SetArgs }

\* A request is [exc, type, obj, data]: exc # "none" means the accessor raised
\* before _transfer was entered.
Request(t, o, d) == [exc |-> "none", type |-> t, obj |-> o, data |-> d]

NoRequest(e) == [exc |-> e, type |-> 0, obj |-> 0, data |-> <<>>]

\* _set_integer: SEND [data >> 8, data & 0xff]
set_integer(obj, data) ==
    Request(PS_SEND, obj, <<data \div 256, data % 256>>)

\* _set_binary: SEND [mask, data]
set_binary(obj, mask, data) == Request(PS_SEND, obj, <<mask, data>>)

\* set_remote(remote): _set_control(0x10, 0x10) or _set_control(0x10, 0x00)
set_remote(remote) ==
    IF remote THEN set_binary(54, 16, 16) ELSE set_binary(54, 16, 0)

\* set_output_on(on): _set_control(0x01, 0x01) or _set_control(0x01, 0x00)
set_output_on(on) ==
    IF on THEN set_binary(54, 1, 1) ELSE set_binary(54, 1, 0)

\* set_voltage / set_current: int(round((x * 25600.0) / nominal))
set_scaled(obj, a, nom) ==
    IF nom[1] = 0 THEN NoRequest("ZeroDivisionError")
    ELSE set_integer(obj, Round(Rat(a.x[1] * FULL_SCALE * nom[2], a.x[2] * nom[1])))

\* set_OVP_threshold / set_OCP_threshold: _set_integer(obj, x) on the raw
\* argument; a float argument fails in `data >> 8`
set_raw(obj, a) ==
    IF a.isfloat THEN NoRequest("TypeError")
    ELSE set_integer(obj, a.x[1])

\* the request an accessor call hands to _transfer
request(c, un, in) ==
    CASE c.name \in Getters -> Request(PS_QUERY, obj_of(c.name), <<>>)
      [] c.name = "set_remote" -> set_remote(c.flag)
      [] c.name = "set_local" -> set_remote(~ c.flag)
      [] c.name = "set_output_on" -> set_output_on(c.flag)
      [] c.name = "set_output_off" -> set_output_on(~ c.flag)
      [] c.name \in RawSetters -> set_raw(obj_of(c.name), c)
      [] c.name \in {"set_voltage", "set_current"} ->
            set_scaled(obj_of(c.name), c, nominal_of(c.name, un, in))

\* one flag of get_control's result (an exception passes through)
control_flag(r, key) ==
    IF r.exc # "none" THEN r
    ELSE Returns("bool", IF key = "remote" THEN r.val.remote ELSE r.val.output_on)

\* what an accessor call makes of the answer a successful _transfer returned
result(c, a, un, in) ==
    CASE c.name \in StringGetters -> get_string(a)
      [] c.name \in FloatGetters -> get_float(a)
      [] c.name = "get_device_class" -> get_integer(a)
      [] c.name \in ScaledGetters -> scaled(nominal_of(c.name, un, in), get_integer(a))
      [] c.name \in ScaledSetters -> get_integer(a)
      [] c.name = "get_control" -> get_control(a)
      [] c.name = "get_remote" -> control_flag(get_control(a), "remote")
      [] c.name = "get_output_on" -> control_flag(get_control(a), "output_on")
      [] c.name \in ControlSetters -> set_control(a)
      [] c.name = "get_actual" -> get_actual(a, un, in)
      [] c.name = "get_setpoints" -> get_setpoints(a, un, in)


---------------------------------------------------------------------------
\* Object transfer.

\* a printed line: a format and the values it is filled with
Line(f, v) == [fmt |-> f, args |-> v]

\* the lines _check_error prints before it exits: the code's name, if it has
\* one, then the answer's bytes
error_lines(a) ==
    (IF error_text(At(a, 3)) = "" THEN <<>> ELSE <<Line(error_text(At(a, 3)), <<>>)>>)
    \o <<Line("answer: %02x ...", a)>>

\* the checks of _transfer with the length check after the other two
transferLenLast(a) ==
    IF Len(a) >= 2 /\ ~ check_checksum(a)
    THEN [kind |-> "checksum", ran |-> <<"checksum">>,
          text |-> <<Line("ERROR: checksum mismatch", <<>>)>>]
    ELSE IF Len(a) < MIN_ANSWER
    THEN [kind |-> "short", ran |-> <<"checksum">>,
          text |-> <<Line("ERROR: short answer (%d bytes received)", <<Len(a)>>)>>]
    ELSE IF check_error(a)
    THEN [kind |-> "device", ran |-> <<"checksum", "error">>, text |-> error_lines(a)]
    ELSE [kind |-> "ok", ran |-> <<"checksum", "error">>, text |-> <<>>]

\* the checks of _transfer with the device-error check before the checksum
transferErrorFirst(a) ==
    IF Len(a) < MIN_ANSWER
    THEN [kind |-> "short", ran |-> <<>>,
          text |-> <<Line("ERROR: short answer (%d bytes received)", <<Len(a)>>)>>]
    ELSE IF check_error(a)
    THEN [kind |-> "device", ran |-> <<"error">>, text |-> error_lines(a)]
    ELSE IF ~ check_checksum(a)
    THEN [kind |-> "checksum", ran |-> <<"error", "checksum">>,
          text |-> <<Line("ERROR: checksum mismatch", <<>>)>>]
    ELSE [kind |-> "ok", ran |-> <<"error", "checksum">>, text |-> <<>>]

\* _transfer after the read: the checks it runs on the answer, in order, the
\* way it ends and the lines it prints
transfer(a) ==
    IF Len(a) < MIN_ANSWER
    THEN [kind |-> "short", ran |-> <<>>,
          text |-> <<Line("ERROR: short answer (%d bytes received)", <<Len(a)>>)>>]
    ELSE IF ~ check_checksum(a)
    THEN [kind |-> "checksum", ran |-> <<"checksum">>,
          text |-> <<Line("ERROR: checksum mismatch", <<>>)>>]
    ELSE IF check_error(a)
    THEN [kind |-> "device", ran |-> <<"checksum", "error">>, text |-> error_lines(a)]
    ELSE [kind |-> "ok", ran |-> <<"checksum", "error">>, text |-> <<>>]

\* reply refusing an answer whose object byte is not the one requested
replyChecksObject(c, a, un, in) ==
    IF transfer(a).kind = "ok" /\ At(a, 2) \in {obj_of(c.name), ERR_MARK}
    THEN result(c, a, un, in)
    ELSE Raises("SystemExit")

\* what the caller of accessor c gets when the device answers a: the
\* accessor's result, or SystemExit from the sys.exit(1) of a failed check
reply(c, a, un, in) ==
    IF transfer(a).kind = "ok" THEN result(c, a, un, in) ELSE Raises("SystemExit")

\* a device frame: the given bytes followed by their checksum
Frame(body) == body \o <<SumSeq(body) \div 256, SumSeq(body) % 256>>

\* the answers ser_dev.read(100) may return
Responses ==
    { <<>>,                                      \* timeout, nothing read
      <<128, 0, 255, 48>>,                       \* 4 bytes of an error frame
      Frame(<<128, 0, 255, 0>>),                 \* acknowledge
      Frame(<<128, 0, 255, 48>>),                \* error 0x30, upper limit
      Frame(<<128, 0, 255, 85>>),                \* error 0x55, no named kind
      <<128, 0, 255, 48, 0, 0>>,                 \* error frame, wrong checksum
      <<129, 0, 50, 50, 0, 0, 0>>,               \* data frame, wrong checksum
      Frame(<<128, 0, 54>>),                     \* 5 bytes, empty payload
      Frame(<<131, 0, 2, 66, 40, 0, 0>>),        \* float 42.0
      Frame(<<131, 0, 3, 65, 32, 0, 0>>),        \* float 10.0
      Frame(<<131, 0, 2, 0, 0, 0, 0>>),          \* float 0.0
      Frame(<<129, 0, 50, 50, 0>>),              \* integer 12800
      Frame(<<129, 0, 54, 1, 1>>),               \* control: remote, output on
      Frame(<<129, 0, 54, 255, 0>>),             \* data bytes 0xff 0x00
      Frame(<<133, 0, 71, 1, 19, 50, 0, 12, 128>>),  \* actual values
      Frame(<<130, 0, 0, 80, 83, 0>>),           \* string "PS"
      Frame(<<130, 0, 0, 80, 200, 0>>) }         \* string with a non-ASCII byte

\* a Python float with the rational value q
Float(q) == <<q[1], q[2], "float">>

---------------------------------------------------------------------------
\* The session: __init__, __enter__, the body, __exit__.

Init ==
    /\ phase = "init_u"
    /\ pc = "ready"
    /\ call = Plain("get_nominal_voltage")
    /\ wire = <<>>
    /\ ans = <<>>
    /\ io = <<>>
    /\ mark = 0
    /\ outcome = [kind |-> "none", ran |-> <<>>]
    /\ stdout = <<>>
    /\ ret = NoValue
    /\ exc = "none"
    /\ u_nom = <<0, 1, "int">>
    /\ i_nom = <<0, 1, "int">>
    /\ open = TRUE
    /\ ncalls = 0
    /\ c_in = [type |-> PS_QUERY, node |-> 0, obj |-> 0, data |-> <<>>]
    /\ c_frame = <<>>
    /\ c_pos = -1
    /\ c_ok = "none"
    /\ c_val = NoValue
    /\ c_pc = "idle"

\* the accessor raised before _transfer wrote anything
RaisedBeforeWrite(c) ==
    \/ request(c, u_nom, i_nom).exc # "none"
    \/ LET rq == request(c, u_nom, i_nom)
       IN  constructRaises(rq.type, 0, rq.obj, rq.data)

\* the exception RaisedBeforeWrite(c) is about
RaisedWhat(c) ==
    IF request(c, u_nom, i_nom).exc # "none"
    THEN request(c, u_nom, i_nom).exc
    ELSE "ValueError"

\* the first half of accessor call c: up to and including ser_dev.write, or
\* up to the exception raised before it
Send(c) ==
    /\ call' = c
    /\ mark' = Len(io)
    /\ ret' = NoValue
    /\ stdout' = <<>>
    /\ UNCHANGED ans
    /\ IF RaisedBeforeWrite(c)
       THEN /\ outcome' = [kind |-> "raised", ran |-> <<>>]
            /\ UNCHANGED <<wire, io, pc>>
       ELSE LET rq == request(c, u_nom, i_nom)
            IN  /\ wire' = construct(rq.type, 0, rq.obj, rq.data)
                /\ io' = Append(io, "write")
                /\ pc' = "wait"
                /\ outcome' = [kind |-> "pending", ran |-> <<>>]

\* Receive writing the telegram again after a short answer
ReceiveRetry(a) ==
    /\ ans' = a
    /\ io' = IF Len(a) < MIN_ANSWER
             THEN io \o <<"read", "write">>
             ELSE Append(io, "read")
    /\ outcome' = [kind |-> transfer(a).kind, ran |-> transfer(a).ran]
    /\ stdout' = transfer(a).text
    /\ ret' = [kind |-> reply(call, a, u_nom, i_nom).kind,
               val  |-> reply(call, a, u_nom, i_nom).val]
    /\ pc' = "ready"
    /\ UNCHANGED <<call, wire, mark>>

\* the second half of the accessor call in progress: ser_dev.read returns a,
\* _transfer checks it and the accessor decodes it
Receive(a) ==
    /\ ans' = a
    /\ io' = Append(io, "read")
    /\ outcome' = [kind |-> transfer(a).kind, ran |-> transfer(a).ran]
    /\ stdout' = transfer(a).text
    /\ ret' = [kind |-> reply(call, a, u_nom, i_nom).kind,
               val  |-> reply(call, a, u_nom, i_nom).val]
    /\ pc' = "ready"
    /\ UNCHANGED <<call, wire, mark>>

\* __init__, line 31: get_nominal_voltage() writes its telegram
QueryNominalVoltage ==
    /\ phase = "init_u" /\ pc = "ready"
    /\ Send(Plain("get_nominal_voltage"))
    /\ UNCHANGED <<phase, exc, u_nom, i_nom, open, ncalls>>
    /\ UNCHANGED codecVars

\* StoreNominalVoltage losing the value read
StoreNominalVoltageLost ==
    /\ phase = "init_u" /\ pc = "wait"
    /\ \E a \in Responses :
        /\ Receive(a)
        /\ IF reply(call, a, u_nom, i_nom).exc = "none"
           THEN phase' = "init_i" /\ UNCHANGED exc
           ELSE phase' = "done" /\ exc' = reply(call, a, u_nom, i_nom).exc
        /\ UNCHANGED u_nom
    /\ UNCHANGED <<i_nom, open, ncalls>>
    /\ UNCHANGED codecVars

\* __init__, line 31: the answer is read and self.u_nom assigned, or the
\* constructor fails
StoreNominalVoltage ==
    /\ phase = "init_u" /\ pc = "wait"
    /\ \E a \in Responses :
        /\ Receive(a)
        /\ IF reply(call, a, u_nom, i_nom).exc = "none"
           THEN /\ u_nom' = Float(reply(call, a, u_nom, i_nom).val)
                /\ phase' = "init_i"
                /\ UNCHANGED exc
           ELSE /\ phase' = "done"
                /\ exc' = reply(call, a, u_nom, i_nom).exc
                /\ UNCHANGED u_nom
    /\ UNCHANGED <<i_nom, open, ncalls>>
    /\ UNCHANGED codecVars

\* __init__, line 32: get_nominal_current() writes its telegram
QueryNominalCurrent ==
    /\ phase = "init_i" /\ pc = "ready"
    /\ Send(Plain("get_nominal_current"))
    /\ UNCHANGED <<phase, exc, u_nom, i_nom, open, ncalls>>
    /\ UNCHANGED codecVars

\* __init__, line 32: the answer is read and self.i_nom assigned, or the
\* constructor fails
StoreNominalCurrent ==
    /\ phase = "init_i" /\ pc = "wait"
    /\ \E a \in Responses :
        /\ Receive(a)
        /\ IF reply(call, a, u_nom, i_nom).exc = "none"
           THEN /\ i_nom' = Float(reply(call, a, u_nom, i_nom).val)
                /\ phase' = "enter"
                /\ UNCHANGED exc
           ELSE /\ phase' = "done"
                /\ exc' = reply(call, a, u_nom, i_nom).exc
                /\ UNCHANGED i_nom
    /\ UNCHANGED <<u_nom, open, ncalls>>
    /\ UNCHANGED codecVars

\* __enter__: set_remote(True) writes its telegram
EnterWrite ==
    /\ phase = "enter" /\ pc = "ready"
    /\ Send(Call("set_remote", TRUE, <<0, 1>>, FALSE))
    /\ UNCHANGED <<phase, exc, u_nom, i_nom, open, ncalls>>
    /\ UNCHANGED codecVars

\* __enter__: set_remote(True) returns (its value is dropped) and the body
\* starts, or it raises and the with statement never calls __exit__
EnterRead ==
    /\ phase = "enter" /\ pc = "wait"
    /\ \E a \in Responses :
        /\ Receive(a)
        /\ IF reply(call, a, u_nom, i_nom).exc = "none"
           THEN phase' = "body" /\ UNCHANGED exc
           ELSE phase' = "done" /\ exc' = reply(call, a, u_nom, i_nom).exc
    /\ UNCHANGED <<u_nom, i_nom, open, ncalls>>
    /\ UNCHANGED codecVars

\* the body calls an accessor: its telegram is written, or it raises before
\* that and the with statement runs __exit__
BodyCall ==
    /\ phase = "body" /\ pc = "ready" /\ ncalls < MaxCalls
    /\ \E c \in BodyCalls :
        /\ Send(c)
        /\ IF RaisedBeforeWrite(c)
           THEN phase' = "exit" /\ exc' = RaisedWhat(c)
           ELSE UNCHANGED <<phase, exc>>
    /\ ncalls' = ncalls + 1
    /\ UNCHANGED <<u_nom, i_nom, open>>
    /\ UNCHANGED codecVars

\* BodyRead with get_nominal_voltage caching the value it read
BodyReadStores ==
    /\ phase = "body" /\ pc = "wait"
    /\ \E a \in Responses :
        /\ Receive(a)
        /\ IF reply(call, a, u_nom, i_nom).exc = "none"
           THEN /\ UNCHANGED <<phase, exc>>
                /\ u_nom' = IF call.name = "get_nominal_voltage"
                            THEN Float(reply(call, a, u_nom, i_nom).val)
                            ELSE u_nom
           ELSE /\ phase' = "exit" /\ exc' = reply(call, a, u_nom, i_nom).exc
                /\ UNCHANGED u_nom
    /\ UNCHANGED <<i_nom, open, ncalls>>
    /\ UNCHANGED codecVars

\* the body's accessor call returns, or raises and the with statement runs
\* __exit__
BodyRead ==
    /\ phase = "body" /\ pc = "wait"
    /\ \E a \in Responses :
        /\ Receive(a)
        /\ IF reply(call, a, u_nom, i_nom).exc = "none"
           THEN UNCHANGED <<phase, exc>>
           ELSE phase' = "exit" /\ exc' = reply(call, a, u_nom, i_nom).exc
    /\ UNCHANGED <<u_nom, i_nom, open, ncalls>>
    /\ UNCHANGED codecVars

\* the body ends normally
BodyEnd ==
    /\ phase = "body" /\ pc = "ready"
    /\ phase' = "exit"
    /\ UNCHANGED <<pc, call, wire, ans, io, mark, outcome, stdout, ret, exc,
                   u_nom, i_nom, open, ncalls>>
    /\ UNCHANGED codecVars

\* __exit__, line 43: set_remote(False) writes its telegram
ExitWrite ==
    /\ phase = "exit" /\ pc = "ready"
    /\ Send(Call("set_remote", FALSE, <<0, 1>>, FALSE))
    /\ UNCHANGED <<phase, exc, u_nom, i_nom, open, ncalls>>
    /\ UNCHANGED codecVars

\* __exit__, lines 43-44: set_remote(False) returns and close() runs, or it
\* raises and close() is skipped; either way the process is over
ExitRead ==
    /\ phase = "exit" /\ pc = "wait"
    /\ \E a \in Responses :
        /\ Receive(a)
        /\ IF reply(call, a, u_nom, i_nom).exc = "none"
           THEN open' = FALSE /\ UNCHANGED exc
           ELSE exc' = reply(call, a, u_nom, i_nom).exc /\ UNCHANGED open
    /\ phase' = "done"
    /\ UNCHANGED <<u_nom, i_nom, ncalls>>
    /\ UNCHANGED codecVars

Next ==
    \/ QueryNominalVoltage
    \/ StoreNominalVoltage
    \/ QueryNominalCurrent
    \/ StoreNominalCurrent
    \/ EnterWrite
    \/ EnterRead
    \/ BodyCall
    \/ BodyRead
    \/ BodyEnd
    \/ ExitWrite
    \/ ExitRead

Spec == Init /\ [][Next]_vars


---------------------------------------------------------------------------
\* The codec alone: _construct on bounded arguments, an optional change of
\* one checksum-covered byte, then _check_checksum.

\* byte values the codec inputs are drawn from
CodecBytes == {0, 1, 16, 255}

\* sequences over S of length at most n
RECURSIVE SeqsUpTo(_, _)
SeqsUpTo(S, n) ==
    IF n = 0 THEN {<<>>}
    ELSE SeqsUpTo(S, n - 1)
         \cup { Append(q, b) : q \in { t \in SeqsUpTo(S, n - 1) : Len(t) = n - 1 },
                               b \in S }

\* data sequences longer than MaxData: runs of one byte value
LongData ==
    { [k \in 1..n |-> b] : n \in (MaxData + 1)..MaxLong, b \in {0, 255} }

CodecInputs ==
    [type : {PS_QUERY, PS_SEND}, node : {0, 1, 255}, obj : {0, 54, 255},
     data : SeqsUpTo(CodecBytes, MaxData) \cup LongData]

\* device answers for the classification: every code under several markers
AnswerFrames ==
    { Frame(<<128, 0, b2, b3>>) : b2 \in {0, 54, 254, 255}, b3 \in 0..255 }

\* the first two payload bytes of the bitfield objects: each tested bit
\* alone, set among others, and clear among others
FlagBytes0 == {0, 1, 2, 3, 4, 252, 254, 255}

FlagBytes1 == {0, 1, 2, 4, 6, 8, 16, 32, 64, 128, 9, 241, 254, 255}

\* answers to a query of object 54
ControlFrames ==
    { Frame(<<129, 0, 54, b0, b1>>) : b0 \in FlagBytes0, b1 \in FlagBytes1 }

\* the raw voltage and current words of objects 71 and 72
RawWords == { <<0, 0, 0, 0>>, <<50, 0, 12, 128>>, <<255, 255, 100, 0>>,
              <<0, 1, 255, 255>> }

\* answers to a query of object 71 or 72
ValueFrames ==
    { Frame(<<133, 0, 71, b0, b1>> \o w) :
        b0 \in FlagBytes0, b1 \in FlagBytes1, w \in RawWords }

\* nominal values a constructed session may hold
NominalPairs == { << <<42, 1, "float">>, <<10, 1, "float">> >>,
                  << <<84, 1, "float">>, <<5, 1, "float">> >> }

InitCodec ==
    /\ phase = "done"
    /\ pc = "ready"
    /\ call = Plain("get_nominal_voltage")
    /\ wire = <<>>
    /\ ans = <<>>
    /\ io = <<>>
    /\ mark = 0
    /\ outcome = [kind |-> "none", ran |-> <<>>]
    /\ stdout = <<>>
    /\ ret = NoValue
    /\ exc = "none"
    /\ open = FALSE
    /\ ncalls = 0
    /\ c_pos = -1
    /\ c_ok = "none"
    /\ c_val = NoValue
    /\ \/ /\ c_pc = "new" /\ c_in \in CodecInputs /\ c_frame = <<>>
          /\ u_nom = <<0, 1, "int">> /\ i_nom = <<0, 1, "int">>
       \/ /\ c_pc = "answer"
          /\ c_in = [type |-> PS_QUERY, node |-> 0, obj |-> 0, data |-> <<>>]
          /\ c_frame \in AnswerFrames
          /\ u_nom = <<0, 1, "int">> /\ i_nom = <<0, 1, "int">>
       \/ /\ c_pc = "payload"
          /\ c_in = [type |-> PS_QUERY, node |-> 0, obj |-> 0, data |-> <<>>]
          /\ c_frame \in ControlFrames \cup ValueFrames
          /\ \E np \in NominalPairs : u_nom = np[1] /\ i_nom = np[2]

\* _construct(type, node, obj, data) returns its telegram, or raises
\* ValueError when an element does not fit a byte
CodecConstruct ==
    /\ c_pc = "new"
    /\ IF constructRaises(c_in.type, c_in.node, c_in.obj, c_in.data)
       THEN c_frame' = <<>> /\ c_pc' = "raised"
       ELSE /\ c_frame' = construct(c_in.type, c_in.node, c_in.obj, c_in.data)
            /\ c_pc' = "built"
    /\ UNCHANGED <<c_in, c_pos, c_ok, c_val>>
    /\ UNCHANGED sessionVars

\* one byte among the checksum-covered ones is replaced by a different value
CodecTamper ==
    /\ c_pc = "built" /\ c_pos = -1
    /\ \E i \in 0..(Len(c_frame) - 3), b \in CodecBytes \cup {2, 128} :
        /\ b # At(c_frame, i)
        /\ c_frame' = [c_frame EXCEPT ![i + 1] = b]
        /\ c_pos' = i
    /\ UNCHANGED <<c_in, c_ok, c_val, c_pc>>
    /\ UNCHANGED sessionVars

\* _check_checksum(c_frame): returns True, or prints the mismatch and exits
CodecCheck ==
    /\ c_pc = "built"
    /\ c_ok' = IF check_checksum(c_frame) THEN "True" ELSE "mismatch"
    /\ c_pc' = "checked"
    /\ UNCHANGED <<c_in, c_frame, c_pos, c_val>>
    /\ UNCHANGED sessionVars

\* _transfer's checks on a device answer: how the transfer ends
CodecClassify ==
    /\ c_pc = "answer"
    /\ c_ok' = transfer(c_frame).kind
    /\ c_pc' = "classified"
    /\ UNCHANGED <<c_in, c_frame, c_pos, c_val>>
    /\ UNCHANGED sessionVars

\* get_control, get_actual and get_setpoints decode the answer c_frame
CodecDecode ==
    /\ c_pc = "payload"
    /\ c_val' = [control   |-> get_control(c_frame),
                 actual    |-> get_actual(c_frame, u_nom, i_nom),
                 setpoints |-> get_setpoints(c_frame, u_nom, i_nom)]
    /\ c_pc' = "decoded"
    /\ UNCHANGED <<c_in, c_frame, c_pos, c_ok>>
    /\ UNCHANGED sessionVars

NextCodec ==
    \/ CodecConstruct
    \/ CodecTamper
    \/ CodecCheck
    \/ CodecClassify
    \/ CodecDecode

SpecCodec == InitCodec /\ [][NextCodec]_vars


---------------------------------------------------------------------------
\* Properties.

\* the last _transfer got as far as reading an answer, which is ans
Answered == pc = "ready" /\ outcome.kind \in {"ok", "short", "checksum", "device"}

\* the last two bytes of a are the big-endian 16-bit sum of the bytes before
ChecksumValid(a) ==
    /\ Len(a) >= 2
    /\ At(a, Len(a) - 2) * 256 + At(a, Len(a) - 1) = SumSeq(SubSeq(a, 1, Len(a) - 2))
    /\ At(a, Len(a) - 1) < 256

\* the telegram that hands control back to the front panel
LocalTelegram == construct(PS_SEND, 0, 54, <<16, 0>>)

\* C1: once the constructor has succeeded, the process never ends without
\* having written SEND object 54 [0x10, 0x00] last and closed ser_dev.
C1_ExitRestoresLocalAndCloses ==
    (phase = "done" /\ i_nom[3] = "float")
        => (wire = LocalTelegram /\ open = FALSE)

\* C2: a control setter returns True only for an answer whose byte 2 is 0xFF
\* and whose byte 3 is 0x00.
C2_ConfirmedOnlyOnAcknowledge ==
    (Answered /\ call.name \in ControlSetters /\ ret.kind = "bool" /\ ret.val)
        => (At(ans, 2) = ERR_MARK /\ At(ans, 3) = 0)

\* the two data bytes of round(x * 25600 / nom), big-endian
ScaledPayload(x, nom) ==
    LET v == Round(Rat(x[1] * FULL_SCALE * nom[2], x[2] * nom[1]))
    IN  <<v \div 256, v % 256>>

\* C3: the telegram a scaled setter (objects 38, 39, 50, 51) writes for the
\* physical value x is a SEND whose data is round(x * 25600 / nominal).
C3_SetterSendsScaledValue ==
    (phase = "body" /\ pc = "wait" /\ call.name \in ScaledSetters
       /\ nominal_of(call.name, u_nom, i_nom)[1] # 0)
        => /\ At(wire, 0) = SD_BASE + PS_SEND + 1
           /\ At(wire, 2) = obj_of(call.name)
           /\ Slice(wire, 3, -2)
                = ScaledPayload(call.x, nominal_of(call.name, u_nom, i_nom))

\* C4: every frame _construct returns ends in the big-endian 16-bit sum of
\* its other bytes, and _check_checksum accepts it.
C4_ConstructedFrameIsChecksumValid ==
    /\ (c_pc \in {"built", "checked"} /\ c_pos = -1) => ChecksumValid(c_frame)
    /\ (c_pc = "checked" /\ c_pos = -1) => c_ok = "True"

C4_Witness ==
    /\ c_pc = "checked" /\ c_pos = -1 /\ c_ok = "True"
    /\ Len(c_in.data) = 2 /\ c_in.type = PS_SEND
    /\ At(c_frame, Len(c_frame) - 2) > 0

\* the scaled accessors: those that use u_nom or i_nom
ScaledAccessors ==
    ScaledGetters \cup ScaledSetters \cup {"get_actual", "get_setpoints"}

\* C5: the first two transfers are QUERY object 2 and QUERY object 3, their
\* decoded floats become u_nom and i_nom, and whenever a scaled accessor has
\* been called both values have been fetched from the device.
C5_NominalsFetchedFirst ==
    /\ (phase = "init_u" /\ pc = "ready") => io = <<>>
    /\ (phase = "init_u" /\ pc = "wait")
          => (io = <<"write">> /\ wire = construct(PS_QUERY, 0, 2, <<>>))
    /\ (phase = "init_i" /\ pc = "ready")
          => (io = <<"write", "read">> /\ u_nom = Float(unpack_f(get_binary(ans))))
    /\ (phase = "init_i" /\ pc = "wait")
          => (io = <<"write", "read", "write">>
              /\ wire = construct(PS_QUERY, 0, 3, <<>>))
    /\ (phase = "enter" /\ pc = "ready")
          => (io = <<"write", "read", "write", "read">>
              /\ i_nom = Float(unpack_f(get_binary(ans))))
    /\ (phase \in {"body", "exit"} /\ call.name \in ScaledAccessors)
          => (u_nom[3] = "float" /\ i_nom[3] = "float" /\ Len(io) >= 6)

C5_Witness ==
    /\ phase = "body" /\ Answered /\ call.name = "get_voltage_setpoint"
    /\ u_nom = <<42, 1, "float">> /\ i_nom = <<10, 1, "float">>
    /\ ret.kind = "float" /\ ret.val = <<21, 1>>

\* C6: writes and reads alternate, starting with a write; a read is pending
\* exactly between a call's write and its read; and a transfer that has
\* ended, however it ended, made one write and then one read.
C6_OneWriteThenOneRead ==
    /\ \A k \in 1..Len(io) : io[k] = (IF k % 2 = 1 THEN "write" ELSE "read")
    /\ (pc = "wait") <=> (Len(io) % 2 = 1)
    /\ pc = "wait" => Len(io) = mark + 1
    /\ Answered => Len(io) = mark + 2

C6_Witness ==
    /\ phase = "exit" /\ Answered /\ outcome.kind = "short"
    /\ io = <<"write", "read", "write", "read", "write", "read", "write", "read">>

\* C7: an answer of 4 or fewer bytes ends the transfer as a short response:
\* neither check ran, only the short-answer line was printed, and the
\* accessor raised SystemExit instead of returning a value.
C7_ShortAnswerFails ==
    (Answered /\ Len(ans) <= 4)
        => /\ outcome = [kind |-> "short", ran |-> <<>>]
           /\ stdout = <<Line("ERROR: short answer (%d bytes received)", <<Len(ans)>>)>>
           /\ ret = NoValue
           /\ exc = "SystemExit"
           /\ phase \in {"exit", "done"}

C7_Witness ==
    /\ Answered /\ ans = <<128, 0, 255, 48>> /\ outcome.kind = "short"
    /\ phase = "exit" /\ call.name = "get_control"

\* C8: a checksum-valid answer of at least 5 bytes passes when byte 2 is not
\* 0xFF or when byte 2 is 0xFF and byte 3 is 0, and ends the transfer as a
\* device error for byte 2 = 0xFF and every byte 3 in 1..255.
C8_ErrorClassification ==
    (c_pc = "classified" /\ Len(c_frame) >= 5 /\ ChecksumValid(c_frame))
        => c_ok = (IF At(c_frame, 2) = ERR_MARK /\ At(c_frame, 3) \in 1..255
                   THEN "device" ELSE "ok")

C8_Witness ==
    /\ c_pc = "classified" /\ c_ok = "device"
    /\ At(c_frame, 2) = ERR_MARK /\ At(c_frame, 3) = 85

\* C9: a constructed frame in which one checksum-covered byte was replaced by
\* a different value, the checksum bytes kept, is rejected by _check_checksum.
C9_TamperedFrameRejected ==
    (c_pc = "checked" /\ c_pos >= 0) => c_ok = "mismatch"

C9_Witness ==
    /\ c_pc = "checked" /\ c_pos = 3 /\ c_ok = "mismatch"
    /\ Len(c_in.data) = 2

\* C10: the frame _construct returns has len(data) + 5 bytes: the start
\* delimiter 0x30 | type (plus len(data) - 1 for non-empty data), node,
\* object, the data unchanged, checksum high byte, checksum low byte.
C10_FrameLayout ==
    (c_pc = "built" /\ c_pos = -1)
        => LET n  == Len(c_in.data)
               cs == SumSeq(SubSeq(c_frame, 1, n + 3))
           IN  /\ Len(c_frame) = n + 5
               /\ At(c_frame, 0) = BitOr(SD_BASE, c_in.type)
                                     + (IF n = 0 THEN 0 ELSE n - 1)
               /\ At(c_frame, 1) = c_in.node
               /\ At(c_frame, 2) = c_in.obj
               /\ \A k \in 1..n : At(c_frame, 2 + k) = c_in.data[k]
               /\ At(c_frame, n + 3) = cs \div 256
               /\ At(c_frame, n + 4) = cs % 256

C10_Witness ==
    /\ c_pc = "built" /\ c_pos = -1
    /\ c_in = [type |-> PS_SEND, node |-> 0, obj |-> 54, data |-> <<16, 0>>]
    /\ c_frame = <<241, 0, 54, 16, 0, 1, 55>>


\* the longest data the start delimiter's length bits can describe (16):
\* one more and SD_BASE + PS_SEND + len - 1 no longer fits a byte
MaxFrameData == 256 - (SD_BASE + PS_SEND)

\* _construct returned a frame of bytes whose start delimiter still carries
\* the type in its upper four bits
ConstructedCleanly ==
    /\ c_pc = "built"
    /\ \A k \in 1..Len(c_frame) : c_frame[k] \in Byte
    /\ At(c_frame, 0) \div 16 = (SD_BASE + c_in.type) \div 16
    /\ At(c_frame, 0) % 16 = (IF Len(c_in.data) = 0 THEN 0 ELSE Len(c_in.data) - 1)

\* C11 as stated: for every data length _construct returns a frame of bytes,
\* the length never carrying out of the start delimiter's low four bits.
C11_NoErrorPathAnyLength ==
    (c_pc \in {"built", "raised"} /\ c_pos = -1) => ConstructedCleanly

\* C11, amended: the same for data of at most 16 bytes.
C11_NoErrorPathUpTo16 ==
    (c_pc \in {"built", "raised"} /\ c_pos = -1 /\ Len(c_in.data) <= MaxFrameData)
        => ConstructedCleanly

C11_Witness ==
    /\ c_pc = "built" /\ c_pos = -1
    /\ c_in.type = PS_SEND /\ Len(c_in.data) = 16 /\ c_in.data[1] = 255
    /\ At(c_frame, 0) = 255
    /\ At(c_frame, Len(c_frame) - 2) > 16


\* the telegram that asks for remote control
RemoteTelegram == construct(PS_SEND, 0, 54, <<16, 16>>)

\* C12: the third transfer is SEND object 54 [0x10, 0x10], and the body
\* starts only after the device has acknowledged it (byte 2 = 0xFF, byte 3 = 0).
C12_BodyOnlyAfterRemoteAcknowledged ==
    /\ (phase = "enter" /\ pc = "wait")
          => (io = <<"write", "read", "write", "read", "write">>
              /\ wire = RemoteTelegram)
    /\ (phase = "body" /\ ncalls = 0)
          => (wire = RemoteTelegram /\ At(ans, 2) = ERR_MARK /\ At(ans, 3) = 0)

\* the part of C12 the code keeps: the remote telegram is the third one
\* written, and the body starts only after its answer passed _transfer's checks
C12_RemoteTelegramThird ==
    /\ (phase = "enter" /\ pc = "wait")
          => (io = <<"write", "read", "write", "read", "write">>
              /\ wire = RemoteTelegram)
    /\ (phase = "body" /\ ncalls = 0)
          => (wire = RemoteTelegram /\ outcome.kind = "ok" /\ Len(io) = 6)


\* the ways a transfer fails
FailureKinds == {"short", "checksum", "device"}

\* C13: the exception a failed transfer raises tells its kind of failure: no
\* answer failing in another way would have raised the same to the caller.
\* (sys.exit is called with the same code 1 at all three places, so the
\* exception type is all the caller has.)
C13_FailureKindsDistinguishable ==
    (Answered /\ outcome.kind \in FailureKinds)
        => \A b \in Responses :
              (transfer(b).kind \in FailureKinds \ {outcome.kind})
                  => reply(call, b, u_nom, i_nom).exc # exc

\* what the code does instead: every failed transfer raises SystemExit, and
\* the kinds differ only in the first line printed
C13_FailuresDifferOnlyInPrint ==
    (Answered /\ outcome.kind \in FailureKinds)
        => /\ exc = "SystemExit"
           /\ ret = NoValue
           /\ \A b \in Responses :
                 (transfer(b).kind \in FailureKinds \ {outcome.kind})
                     => transfer(b).text[1] # stdout[1]


\* C14: once __init__ has returned (or failed), no step changes u_nom or
\* i_nom, whatever accessor is called and however its transfer ends.
C14_NominalsFrozenAfterInit ==
    [][(phase \notin {"init_u", "init_i"}) => (u_nom' = u_nom /\ i_nom' = i_nom)]_vars

C14_Witness ==
    /\ phase = "body" /\ Answered /\ call.name = "get_nominal_voltage"
    /\ ret.kind = "float" /\ ret.val = <<10, 1>>
    /\ u_nom = <<42, 1, "float">>


\* bit k of byte b is set
Bit(b, k) == (b \div Pow2(k)) % 2 = 1

\* C15: get_control returns remote = bit 0 of payload byte 0 and output_on =
\* bit 0 of payload byte 1, whatever the other bits are.
C15_ControlDecode ==
    (c_pc = "decoded" /\ Len(get_binary(c_frame)) >= 2)
        => /\ c_val.control.exc = "none"
           /\ c_val.control.val.remote = Bit(At(c_frame, 3), 0)
           /\ c_val.control.val.output_on = Bit(At(c_frame, 4), 0)
           /\ DOMAIN c_val.control.val = {"remote", "output_on"}

C15_Witness ==
    /\ c_pc = "decoded" /\ get_binary(c_frame) = <<254, 241>>
    /\ c_val.control.val = [remote |-> FALSE, output_on |-> TRUE]

\* the keys get_actual and get_setpoints both return
SharedKeys == {"remote", "on", "CC", "OVP", "OCP", "OPP", "OTP", "v", "i"}

\* C16: get_actual decodes a 6-byte payload as: remote iff bit 0 or 1 of
\* byte 0, local = not remote, on = byte 1 bit 0, CC iff byte 1 bit 1 or 2,
\* CV = not CC, OVP/OCP/OPP/OTP = byte 1 bits 4/5/6/7, v and i the two words
\* scaled by u_nom / 25600 and i_nom / 25600; get_setpoints agrees on every
\* shared key.
C16_ActualAndSetpointsDecode ==
    (c_pc = "decoded" /\ Len(get_binary(c_frame)) = 6)
        => LET p == get_binary(c_frame)
               a == c_val.actual.val
               t == c_val.setpoints.val
           IN  /\ c_val.actual.exc = "none" /\ c_val.setpoints.exc = "none"
               /\ a.remote = (Bit(p[1], 0) \/ Bit(p[1], 1))
               /\ a.local = ~ a.remote
               /\ a.on = Bit(p[2], 0)
               /\ a.CC = (Bit(p[2], 1) \/ Bit(p[2], 2))
               /\ a.CV = ~ a.CC
               /\ a.OVP = Bit(p[2], 4)
               /\ a.OCP = Bit(p[2], 5)
               /\ a.OPP = Bit(p[2], 6)
               /\ a.OTP = Bit(p[2], 7)
               /\ a.v = Rat(u_nom[1] * (p[3] * 256 + p[4]), u_nom[2] * FULL_SCALE)
               /\ a.i = Rat(i_nom[1] * (p[5] * 256 + p[6]), i_nom[2] * FULL_SCALE)
               /\ DOMAIN t = SharedKeys
               /\ \A k \in SharedKeys : t[k] = a[k]

C16_Witness ==
    /\ c_pc = "decoded" /\ get_binary(c_frame) = <<2, 9, 50, 0, 12, 128>>
    /\ u_nom[1] = 42 /\ i_nom[1] = 10
    /\ c_val.actual.val.remote /\ ~ c_val.actual.val.CC /\ c_val.actual.val.on
    /\ c_val.actual.val.v = <<21, 1>> /\ c_val.actual.val.i = <<5, 4>>
    /\ c_val.setpoints.val.remote

\* C17: the checks run in the order length, checksum, device error: an answer
\* of at least 5 bytes with a wrong checksum ends as a checksum mismatch, also
\* when its byte 2 is 0xFF and its byte 3 is not 0, and the device-error check
\* only ever sees answers of at least 5 bytes with a valid checksum.
C17_ChecksumBeforeDeviceError ==
    /\ (Answered /\ Len(ans) >= MIN_ANSWER /\ ~ ChecksumValid(ans))
           => /\ outcome = [kind |-> "checksum", ran |-> <<"checksum">>]
              /\ stdout = <<Line("ERROR: checksum mismatch", <<>>)>>
              /\ exc = "SystemExit"
    /\ (Answered /\ outcome.ran # <<>>)
           => /\ Len(ans) >= MIN_ANSWER
              /\ outcome.ran[1] = "checksum"
    /\ (Answered /\ \E k \in 1..Len(outcome.ran) : outcome.ran[k] = "error")
           => /\ ChecksumValid(ans)
              /\ outcome.ran = <<"checksum", "error">>

C17_Witness ==
    /\ Answered /\ ans = <<128, 0, 255, 48, 0, 0>>
    /\ outcome.kind = "checksum" /\ call.name = "get_actual"

\* the acknowledge frame: byte 2 = 0xFF, byte 3 = 0x00 and a valid checksum
AckFrame == Frame(<<128, 0, ERR_MARK, 0>>)

\* C18: a control setter answered by the checksum-valid acknowledge frame
\* returns True.
C18_AcknowledgeConfirms ==
    (Answered /\ call.name \in ControlSetters /\ ans = AckFrame)
        => (ret.kind = "bool" /\ ret.val = TRUE)

\* the accessors built on _get_integer and _set_integer
IntegerAccessors == {"get_device_class"} \cup ScaledGetters \cup ScaledSetters

\* C19: an integer accessor (objects 19, 38, 39, 50, 51) returns a value only
\* for an answer whose payload is exactly 2 bytes.
C19_IntegerNeedsTwoPayloadBytes ==
    (Answered /\ call.name \in IntegerAccessors /\ ret.kind # "none")
        => Len(get_binary(ans)) = 2

\* C20: _transfer never compares the answer with the request: an answer fails
\* exactly when it is shorter than 5 bytes, or its checksum is wrong, or its
\* byte 2 is 0xFF with byte 3 not 0; every other answer is handed to the
\* accessor as the data of its request, e.g. get_device_class returns bytes
\* 3 and 4 of an answer naming any object.
C20_AnyValidAnswerAccepted ==
    /\ Answered
           => ((outcome.kind # "ok")
                  <=> \/ Len(ans) < MIN_ANSWER
                      \/ ~ ChecksumValid(ans)
                      \/ (At(ans, 2) = ERR_MARK /\ At(ans, 3) # 0))
    /\ (Answered /\ outcome.kind = "ok" /\ call.name = "get_device_class")
           => ret = [kind |-> "int", val |-> At(ans, 3) * 256 + At(ans, 4)]

C20_Witness ==
    /\ Answered /\ call.name = "get_device_class"
    /\ ans = Frame(<<131, 0, 2, 66, 40, 0, 0>>)
    /\ outcome.kind = "ok" /\ ret.val = 16936

===========================================================================
